---------------------------- MODULE Spec2Model ----------------------------
(* actorlib: an actor runtime.  Each actor owns a mailbox (std::list of   *)
(* message pointers, guarded by a pthread mutex, counted by a semaphore)  *)
(* and one worker thread running actor::run.  result<R> is a reference    *)
(* counted future with a mutex and a condition variable.                  *)
(*                                                                        *)
(* Threads are named by strings; the worker thread of an actor carries    *)
(* the actor's name.  Critical sections of result<R>::data (lock ...      *)
(* unlock on the future's own mutex) are single steps; the mailbox mutex  *)
(* of an actor is modelled explicitly (m_mutex).                          *)
EXTENDS Integers, Sequences, FiniteSets, TLC

VARIABLES
    pc,          \* thread -> position in its code
    loc,         \* thread -> locals of the call in progress
    m_loop,      \* actor -> actor::m_loop
    m_messages,  \* actor -> actor::m_messages (front first)
    m_sem,       \* actor -> value of actor::m_sem
    m_mutex,     \* actor -> thread holding actor::m_mutex, or NoThread
    msg,         \* actor -> the worker's local `msg` in actor::run
    alive,       \* actor -> mutex and semaphore not yet destroyed
    pushOrder,   \* history: actor -> messages in the order of push_back
    posted,      \* history: actor -> messages whose sem_post has happened
    execOrder,   \* history: actor -> messages in the order exec() started
    running,     \* history: handlers executing now, <<thread, actor, id>>
    preStop,     \* history: messages whose put had returned when ~actor pushed its stop
    fut,         \* the result<R>::data objects allocated so far, by number
    m_value,     \* actor -> integer::m_value (the private state of an integer actor)
    reads,       \* history: the values ping and pong obtained from get(), in order
    n0,          \* history: the value the integer actor was constructed with
    handle,      \* the result<R> objects of the handle model: slot -> m_data, owner
    getLog,      \* history: thread -> what held when its call of get() began, and whether it waited
    setLog,      \* history: future -> the values stored by data::set, in order
    deleted,     \* history: actor -> messages in the order of `delete msg`
    argvar       \* caller -> its variable passed as a handler argument, and its history

vars == <<pc, loc, m_loop, m_messages, m_sem, m_mutex, msg, alive,
          pushOrder, posted, execOrder, running, preStop, fut, m_value, reads, n0,
          handle, getLog, setLog, deleted, argvar>>

\* histories of get(), set() and delete, and the callers' argument variables
obs == <<getLog, setLog, deleted, argvar>>

\* the actors' mailboxes and flags
mailbox == <<m_loop, m_messages, m_sem, m_mutex, msg, alive>>

\* the histories of the mailboxes
hist == <<pushOrder, posted, execOrder, running, preStop>>

\* the private state of the example's actors and its history
pp == <<m_value, reads, n0>>

\* the state outside the actors' mailboxes and threads
ext == <<fut, pp, handle>>

-----------------------------------------------------------------------------
(* Bounds and names *)

MaxPuts == 3

Producers == {"p1", "p2"}

Owner == "main"

TheActor == "a"

NoThread == "none"

NoId == <<"none", 0>>

NoMsg == [id |-> NoId, fn |-> "none", arg |-> 0, res |-> 0]

NoLoc == [to |-> "none", m |-> NoMsg, ret |-> "none", n |-> 0, f |-> 0, v |-> 0]

Range(s) == {s[i] : i \in 1..Len(s)}

RECURSIVE SumOver(_, _)
SumOver(f, S) ==
    IF S = {} THEN 0
    ELSE LET x == CHOOSE y \in S : TRUE IN f[x] + SumOver(f, S \ {x})

\* enqueues started by the producers so far
PutsMade == SumOver([p \in Producers |-> loc[p].n], Producers)

IsPrefix(s, t) == Len(s) <= Len(t) /\ \A i \in 1..Len(s) : s[i] = t[i]

-----------------------------------------------------------------------------
(* A message: object_message_N<C, R> with its function, captured argument *)
(* and result handle (res = 0: result<void>, which has no storage).       *)

Message(t, k, fn, arg, res) == [id |-> <<t, k>>, fn |-> fn, arg |-> arg, res |-> res]

-----------------------------------------------------------------------------
(* actor::put(message *msg), actorlib.cpp 31-36 *)

\* faulty variant of put_lock: the semaphore is posted before the push_back
put_lock_post(t) ==
    /\ pc[t] = "put_lock"
    /\ m_mutex[loc[t].to] = NoThread
    /\ m_mutex' = [m_mutex EXCEPT ![loc[t].to] = t]
    /\ m_sem' = [m_sem EXCEPT ![loc[t].to] = @ + 1]
    /\ pc' = [pc EXCEPT ![t] = "put_push"]
    /\ UNCHANGED <<ext, loc, m_loop, m_messages, msg, alive,
                   pushOrder, posted, execOrder, running, preStop, obs>>

\* faulty variant of put_lock: the enqueue waits until the target's worker is idle
put_lock_sync(t) ==
    /\ pc[t] = "put_lock"
    /\ m_mutex[loc[t].to] = NoThread
    /\ pc[loc[t].to] = "sem_wait"
    /\ m_mutex' = [m_mutex EXCEPT ![loc[t].to] = t]
    /\ pc' = [pc EXCEPT ![t] = "put_push"]
    /\ UNCHANGED <<ext, loc, m_loop, m_messages, m_sem, msg, alive,
                   pushOrder, posted, execOrder, running, preStop, obs>>

\* pthread_mutex_lock(&m_mutex)
put_lock(t) ==
    /\ pc[t] = "put_lock"
    /\ m_mutex[loc[t].to] = NoThread
    /\ m_mutex' = [m_mutex EXCEPT ![loc[t].to] = t]
    /\ pc' = [pc EXCEPT ![t] = "put_push"]
    /\ UNCHANGED <<ext, loc, m_loop, m_messages, m_sem, msg, alive,
                   pushOrder, posted, execOrder, running, preStop, obs>>

\* faulty variant of put_push: the caller runs the handler itself instead of queueing it
put_push_inline(t) ==
    /\ pc[t] = "put_push"
    /\ m_mutex[loc[t].to] = t
    /\ m_mutex' = [m_mutex EXCEPT ![loc[t].to] = NoThread]
    /\ execOrder' = [execOrder EXCEPT ![loc[t].to] = Append(@, loc[t].m)]
    /\ pushOrder' = [pushOrder EXCEPT ![loc[t].to] = Append(@, loc[t].m)]
    /\ running' = running \cup {<<t, loc[t].to, loc[t].m.id>>}
    /\ pc' = [pc EXCEPT ![t] = loc[t].ret]
    /\ UNCHANGED <<ext, loc, m_loop, m_messages, m_sem, msg, alive, posted, preStop, obs>>

\* faulty variant of put_push: the mutex is still held when the semaphore is posted
put_push_keep(t) ==
    /\ pc[t] = "put_push"
    /\ m_mutex[loc[t].to] = t
    /\ m_messages' = [m_messages EXCEPT ![loc[t].to] = Append(@, loc[t].m)]
    /\ pushOrder' = [pushOrder EXCEPT ![loc[t].to] = Append(@, loc[t].m)]
    /\ preStop' = IF t = Owner /\ loc[t].m.fn = "_exit"
                   THEN posted[loc[t].to] ELSE preStop
    /\ pc' = [pc EXCEPT ![t] = "put_post"]
    /\ UNCHANGED <<ext, loc, m_loop, m_sem, m_mutex, msg, alive, posted, execOrder,
                   running, obs>>

\* m_messages.push_back(msg); pthread_mutex_unlock(&m_mutex)
put_push(t) ==
    /\ pc[t] = "put_push"
    /\ m_mutex[loc[t].to] = t
    /\ m_messages' = [m_messages EXCEPT ![loc[t].to] = Append(@, loc[t].m)]
    /\ m_mutex' = [m_mutex EXCEPT ![loc[t].to] = NoThread]
    /\ pushOrder' = [pushOrder EXCEPT ![loc[t].to] = Append(@, loc[t].m)]
    /\ preStop' = IF t = Owner /\ loc[t].m.fn = "_exit"
                   THEN posted[loc[t].to] ELSE preStop
    /\ pc' = [pc EXCEPT ![t] = "put_post"]
    /\ UNCHANGED <<ext, loc, m_loop, m_sem, msg, alive, posted, execOrder, running, obs>>

\* faulty variant of sem_post: put returns without posting the semaphore
sem_post_lost(t) ==
    /\ pc[t] = "put_post"
    /\ posted' = [posted EXCEPT ![loc[t].to] = @ \cup {loc[t].m}]
    /\ pc' = [pc EXCEPT ![t] = loc[t].ret]
    /\ UNCHANGED <<ext, loc, m_loop, m_messages, m_sem, m_mutex, msg, alive,
                   pushOrder, execOrder, running, preStop, obs>>

\* sem_post(&m_sem); return
sem_post(t) ==
    /\ pc[t] = "put_post"
    /\ m_sem' = [m_sem EXCEPT ![loc[t].to] = @ + 1]
    /\ posted' = [posted EXCEPT ![loc[t].to] = @ \cup {loc[t].m}]
    /\ pc' = [pc EXCEPT ![t] = loc[t].ret]
    /\ UNCHANGED <<ext, loc, m_loop, m_messages, m_mutex, msg, alive,
                   pushOrder, execOrder, running, preStop, obs>>

\* the thread is inside actor::put(message *)
InPut(t) == pc[t] \in {"put_lock", "put_push", "put_post"}

-----------------------------------------------------------------------------
(* actor::run, actorlib.cpp 46-63; the worker of actor a is thread a *)

\* faulty variant of loop_test: the worker continues whatever m_loop is
loop_test_ignore(a, loop) == "sem_wait"

\* while (m_loop), evaluated by the worker after each iteration
loop_test(a, loop) == IF loop THEN "sem_wait" ELSE "done"

\* sem_wait(&m_sem)
sem_wait(a) ==
    /\ pc[a] = "sem_wait"
    /\ m_sem[a] > 0
    /\ m_sem' = [m_sem EXCEPT ![a] = @ - 1]
    /\ pc' = [pc EXCEPT ![a] = "run_lock"]
    /\ UNCHANGED <<ext, loc, m_loop, m_messages, m_mutex, msg, alive,
                   pushOrder, posted, execOrder, running, preStop, obs>>

\* pthread_mutex_lock(&m_mutex)
run_lock(a) ==
    /\ pc[a] = "run_lock"
    /\ m_mutex[a] = NoThread
    /\ m_mutex' = [m_mutex EXCEPT ![a] = a]
    /\ pc' = [pc EXCEPT ![a] = "run_pop"]
    /\ UNCHANGED <<ext, loc, m_loop, m_messages, m_sem, msg, alive,
                   pushOrder, posted, execOrder, running, preStop, obs>>

\* faulty variant of run_pop: front() without pop_front()
run_peek(a) ==
    /\ pc[a] = "run_pop"
    /\ m_mutex[a] = a
    /\ IF m_messages[a] = <<>>
       THEN /\ pc' = [pc EXCEPT ![a] = "assert_failed"]
            /\ UNCHANGED <<ext, msg, m_mutex>>
       ELSE /\ msg' = [msg EXCEPT ![a] = Head(m_messages[a])]
            /\ m_mutex' = [m_mutex EXCEPT ![a] = NoThread]
            /\ pc' = [pc EXCEPT ![a] = "exec"]
    /\ UNCHANGED <<ext, loc, m_loop, m_messages, m_sem, alive,
                   pushOrder, posted, execOrder, running, preStop, obs>>

\* faulty variant of run_pop: back()/pop_back() instead of front()/pop_front()
run_pop_back(a) ==
    /\ pc[a] = "run_pop"
    /\ m_mutex[a] = a
    /\ IF m_messages[a] = <<>>
       THEN /\ pc' = [pc EXCEPT ![a] = "assert_failed"]
            /\ UNCHANGED <<ext, m_messages, msg, m_mutex>>
       ELSE /\ msg' = [msg EXCEPT ![a] = m_messages[a][Len(m_messages[a])]]
            /\ m_messages' = [m_messages EXCEPT ![a] = SubSeq(@, 1, Len(@) - 1)]
            /\ m_mutex' = [m_mutex EXCEPT ![a] = NoThread]
            /\ pc' = [pc EXCEPT ![a] = "exec"]
    /\ UNCHANGED <<ext, loc, m_loop, m_sem, alive,
                   pushOrder, posted, execOrder, running, preStop, obs>>

\* assert(!m_messages.empty()); msg = m_messages.front();
\* m_messages.pop_front(); pthread_mutex_unlock(&m_mutex)
run_pop(a) ==
    /\ pc[a] = "run_pop"
    /\ m_mutex[a] = a
    /\ IF m_messages[a] = <<>>
       THEN /\ pc' = [pc EXCEPT ![a] = "assert_failed"]
            /\ UNCHANGED <<ext, m_messages, msg, m_mutex>>
       ELSE /\ msg' = [msg EXCEPT ![a] = Head(m_messages[a])]
            /\ m_messages' = [m_messages EXCEPT ![a] = Tail(@)]
            /\ m_mutex' = [m_mutex EXCEPT ![a] = NoThread]
            /\ pc' = [pc EXCEPT ![a] = "exec"]
    /\ UNCHANGED <<ext, loc, m_loop, m_sem, alive,
                   pushOrder, posted, execOrder, running, preStop, obs>>

\* faulty variant of actor_exit: the stop handler leaves m_loop as it is
actor_exit_noop(a) == m_loop

\* actor::_exit, actorlib.cpp 40-42
actor_exit(a) == [m_loop EXCEPT ![a] = FALSE]

\* msg->exec() for a void handler that makes no further calls and changes
\* at most m_loop (actor::_exit; console::_print, main.cpp 20-22, writes to cout):
\* object_message_N<C, void, ...>::exec -> invoker<C, void>::exec -> (o->*f)(...)
exec_void(a) ==
    /\ pc[a] = "exec"
    /\ msg[a].fn \in {"_work", "_exit", "_print"}
    /\ m_loop' = IF msg[a].fn = "_exit" THEN actor_exit(a) ELSE m_loop
    /\ execOrder' = [execOrder EXCEPT ![a] = Append(@, msg[a])]
    /\ running' = running \cup {<<a, a, msg[a].id>>}
    /\ pc' = [pc EXCEPT ![a] = "delete"]
    /\ UNCHANGED <<ext, loc, m_messages, m_sem, m_mutex, msg, alive,
                   pushOrder, posted, preStop, obs>>

\* the handler has returned; delete msg (a result<void> has no storage);
\* then the loop condition
delete_void(a) ==
    /\ pc[a] = "delete"
    /\ msg[a].res = 0
    /\ running' = running \ {<<a, a, msg[a].id>>}
    /\ deleted' = [deleted EXCEPT ![a] = Append(@, msg[a])]
    /\ msg' = [msg EXCEPT ![a] = NoMsg]
    /\ pc' = [pc EXCEPT ![a] = loop_test(a, m_loop[a])]
    /\ UNCHANGED <<ext, loc, m_loop, m_messages, m_sem, m_mutex, alive,
                   pushOrder, posted, execOrder, preStop, getLog, setLog, argvar>>

-----------------------------------------------------------------------------
(* Callers of one actor: producer threads calling a public wrapper that  *)
(* enqueues a void handler (template put, actorlib.hpp 186-190) or       *)
(* actor::exit (actorlib.hpp 216-218), and the owner destroying it.      *)

\* a public wrapper: put(&C::_work) or exit(), up to the call of put(message *)
enqueue(p, fn) ==
    /\ pc[p] = "idle"
    /\ alive[TheActor]
    /\ PutsMade < MaxPuts
    /\ loc' = [loc EXCEPT ![p] = [to |-> TheActor,
                                  m |-> Message(p, loc[p].n + 1, fn, 0, 0),
                                  ret |-> "idle", n |-> loc[p].n + 1,
                                  f |-> 0, v |-> 0]]
    /\ pc' = [pc EXCEPT ![p] = "put_lock"]
    /\ UNCHANGED <<ext, m_loop, m_messages, m_sem, m_mutex, msg, alive,
                   pushOrder, posted, execOrder, running, preStop, obs>>

\* faulty variant of dtor_exit: the destructor clears m_loop itself instead of
\* queueing the stop message
dtor_exit_abrupt(o) ==
    /\ pc[o] = "idle"
    /\ loc' = [loc EXCEPT ![o] = [NoLoc EXCEPT !.to = TheActor]]
    /\ m_loop' = actor_exit(TheActor)
    /\ pc' = [pc EXCEPT ![o] = "join"]
    /\ UNCHANGED <<ext, m_messages, m_sem, m_mutex, msg, alive,
                   pushOrder, posted, execOrder, running, preStop, obs>>

\* actor::~actor, actorlib.cpp 23: exit()
dtor_exit(o) ==
    /\ pc[o] = "idle"
    /\ loc' = [loc EXCEPT ![o] = [to |-> TheActor,
                                  m |-> Message(o, 1, "_exit", 0, 0),
                                  ret |-> "join", n |-> 1, f |-> 0, v |-> 0]]
    /\ pc' = [pc EXCEPT ![o] = "put_lock"]
    /\ UNCHANGED <<ext, m_loop, m_messages, m_sem, m_mutex, msg, alive,
                   pushOrder, posted, execOrder, running, preStop, obs>>

\* faulty variant of dtor_join: the destructor waits until its own stop message
\* has been executed
dtor_join_own(o) ==
    /\ pc[o] = "join"
    /\ \E i \in 1..Len(execOrder[loc[o].to]) : execOrder[loc[o].to][i].id[1] = o
    /\ pc' = [pc EXCEPT ![o] = "destroy"]
    /\ UNCHANGED <<ext, loc, m_loop, m_messages, m_sem, m_mutex, msg, alive,
                   pushOrder, posted, execOrder, running, preStop, obs>>

\* faulty variant of dtor_join: the destructor does not wait for the worker
dtor_join_nowait(o) ==
    /\ pc[o] = "join"
    /\ pc' = [pc EXCEPT ![o] = "destroy"]
    /\ UNCHANGED <<ext, loc, m_loop, m_messages, m_sem, m_mutex, msg, alive,
                   pushOrder, posted, execOrder, running, preStop, obs>>

\* actorlib.cpp 24: pthread_join(m_thread, NULL) returns once the worker
\* thread has returned from thread_proc
dtor_join(o) ==
    /\ pc[o] = "join"
    /\ pc[loc[o].to] = "done"
    /\ pc' = [pc EXCEPT ![o] = "destroy"]
    /\ UNCHANGED <<ext, loc, m_loop, m_messages, m_sem, m_mutex, msg, alive,
                   pushOrder, posted, execOrder, running, preStop, obs>>

\* actorlib.cpp 25-26: sem_destroy, pthread_mutex_destroy; the destructor
\* returns.  Callers are required to have left the actor's methods by then.
dtor_destroy(o) ==
    /\ pc[o] = "destroy"
    /\ \A p \in Producers : pc[p] = "idle"
    /\ alive' = [alive EXCEPT ![loc[o].to] = FALSE]
    /\ pc' = [pc EXCEPT ![o] = "returned"]
    /\ UNCHANGED <<ext, loc, m_loop, m_messages, m_sem, m_mutex, msg,
                   pushOrder, posted, execOrder, running, preStop, obs>>

-----------------------------------------------------------------------------
(* One actor, its producers and its owner *)

\* actor::actor, actorlib.cpp 11-16: m_loop = true, empty list, semaphore 0,
\* the worker thread started
Init ==
    /\ pc = [t \in {TheActor} \cup Producers \cup {Owner} |->
                IF t = TheActor THEN "sem_wait" ELSE "idle"]
    /\ loc = [t \in {TheActor} \cup Producers \cup {Owner} |-> NoLoc]
    /\ m_loop = [a \in {TheActor} |-> TRUE]
    /\ m_messages = [a \in {TheActor} |-> <<>>]
    /\ m_sem = [a \in {TheActor} |-> 0]
    /\ m_mutex = [a \in {TheActor} |-> NoThread]
    /\ msg = [a \in {TheActor} |-> NoMsg]
    /\ alive = [a \in {TheActor} |-> TRUE]
    /\ pushOrder = [a \in {TheActor} |-> <<>>]
    /\ posted = [a \in {TheActor} |-> {}]
    /\ execOrder = [a \in {TheActor} |-> <<>>]
    /\ running = {}
    /\ preStop = {}
    /\ fut = <<>>
    /\ m_value = [a \in {TheActor} |-> 0]
    /\ reads = <<>>
    /\ handle = <<>>
    /\ n0 = 0
    /\ getLog = <<>>
    /\ setLog = <<>>
    /\ deleted = [a \in {TheActor} |-> <<>>]
    /\ argvar = <<>>

Worker(a) ==
    \/ sem_wait(a)
    \/ run_lock(a)
    \/ run_pop(a)
    \/ exec_void(a)
    \/ delete_void(a)

Put(t) ==
    \/ put_lock(t)
    \/ put_push(t)
    \/ sem_post(t)

Next ==
    \/ \E p \in Producers : \E fn \in {"_work", "_exit"} : enqueue(p, fn)
    \/ \E t \in Producers \cup {Owner} : Put(t)
    \/ Worker(TheActor)
    \/ dtor_exit(Owner)
    \/ dtor_join(Owner)
    \/ dtor_destroy(Owner)

Spec == Init /\ [][Next]_vars

\* Scheduling: a thread that can take a step of put, of the worker loop or of
\* the destructor's join eventually takes it.  Whether and when a caller
\* starts an enqueue or the owner starts the destructor is left open.
Fairness ==
    /\ WF_vars(Worker(TheActor))
    /\ \A t \in Producers \cup {Owner} : WF_vars(Put(t))
    /\ WF_vars(dtor_join(Owner) \/ dtor_destroy(Owner))

FairSpec == Spec /\ Fairness

-----------------------------------------------------------------------------
(* Derived notions used by the properties *)

Executed(a) == Range(execOrder[a])

Finished(a) == {m \in Executed(a) : \A r \in running : r[3] # m.id}

\* the messages appended to a's mailbox before the first stop message
\* (all of them when no stop message has been appended)
RECURSIVE UpToStop(_)
UpToStop(s) ==
    IF s = <<>> \/ Head(s).fn = "_exit" THEN <<>>
    ELSE <<Head(s)>> \o UpToStop(Tail(s))

BeforeFirstStop(a) == Range(UpToStop(pushOrder[a]))

DtorReturned == pc[Owner] = "returned"

JoinReturned == pc[Owner] \in {"destroy", "returned"}

-----------------------------------------------------------------------------
(* Properties of one actor's mailbox and lifecycle (Spec, FairSpec) *)

\* C1: the handlers of an actor start executing in exactly the order in
\* which their messages were appended to the mailbox (the order of the
\* push_back steps): the execution order is a prefix of the push order,
\* whatever the order of the producers' sem_post steps.
C1_FifoOrder ==
    \A a \in DOMAIN execOrder : IsPrefix(execOrder[a], pushOrder[a])

\* C1 witness: two producers pushed x then y; y's sem_post has happened and
\* x's has not, and the worker, woken by y's post, has executed x.
C1_Witness ==
    /\ Len(pushOrder[TheActor]) >= 2
    /\ LET x == pushOrder[TheActor][1]
           y == pushOrder[TheActor][2]
       IN /\ x.id[1] # y.id[1]
          /\ x \notin posted[TheActor]
          /\ y \in posted[TheActor]
          /\ execOrder[TheActor] = <<x>>

\* C5: every handler that is executing is executed by the worker thread of
\* its actor (never by the thread that enqueued it), and at most one
\* handler of an actor is executing at any time.
C5_OnlyWorkerExecutes ==
    /\ \A r \in running : r[1] = r[2]
    /\ \A r1, r2 \in running : r1[2] = r2[2] => r1 = r2
    /\ \A p \in Producers \cup {Owner} : \A r \in running : r[1] # p

\* C5 witness: a handler is executing on the worker while a producer is in
\* the middle of an enqueue onto the same actor.
C5_Witness ==
    /\ running = {<<TheActor, TheActor, msg[TheActor].id>>}
    /\ \E p \in Producers : pc[p] \in {"put_push", "put_post"}
    /\ Len(execOrder[TheActor]) >= 2

Drained(a) == BeforeFirstStop(a) \subseteq Executed(a)

\* C6 as stated: every message appended to the mailbox is eventually
\* executed (again and again, every message appended so far has been).
C6_Original == []<>(Range(pushOrder[TheActor]) \subseteq Executed(TheActor))

\* C6 amended: under fair scheduling, every message appended to the mailbox
\* before the first stop message is eventually executed.
C6_EnqueuedBeforeStopRuns == []<>Drained(TheActor)

\* C6 witness: messages of two different producers, appended before any
\* stop message, have both been executed.
C6_Witness ==
    /\ Drained(TheActor)
    /\ \E x, y \in BeforeFirstStop(TheActor) : x.id[1] # y.id[1]

\* C7 as stated: when the destructor has returned, every message whose
\* put had returned before the destructor appended its stop message has
\* finished executing.
C7_Original ==
    DtorReturned => preStop \subseteq Finished(TheActor)

\* C7 amended: when the destructor has returned, every message appended
\* to the mailbox before the first stop message (the destructor's, or that
\* of an earlier exit()) has finished executing.
C7_DrainBeforeFirstStop ==
    DtorReturned => BeforeFirstStop(TheActor) \subseteq Finished(TheActor)

\* C7 witness: the destructor has returned, its stop message was the first,
\* and two messages enqueued before it have run.
C7_Witness ==
    /\ DtorReturned
    /\ Cardinality(preStop) >= 2
    /\ preStop \subseteq BeforeFirstStop(TheActor)
    /\ \A m \in preStop : m.fn = "_work"

\* C8: once pthread_join has returned in the destructor, the worker thread
\* has left its loop and terminated, and no handler of the actor is
\* executing (a terminated worker takes no further step).
C8_JoinAfterWorkerDone ==
    JoinReturned =>
        /\ pc[TheActor] = "done"
        /\ msg[TheActor] = NoMsg
        /\ \A r \in running : r[2] # TheActor

\* C8 witness: the destructor has returned after the worker executed
\* handlers and the stop message.
C8_Witness ==
    /\ DtorReturned
    /\ Len(execOrder[TheActor]) >= 3
    /\ ~alive[TheActor]

\* the messages appended to a's mailbox after the first stop message
AfterFirstStop(a) ==
    {pushOrder[a][i] : i \in (Len(UpToStop(pushOrder[a])) + 2) .. Len(pushOrder[a])}

\* C14: a message appended to the mailbox after the stop message is
\* accepted like any other (it is in the list, and stays there) and is
\* never executed: the worker neither takes it from the list nor runs it.
C14_LateEnqueueNeverRuns ==
    \A m \in AfterFirstStop(TheActor) :
        /\ m \in Range(m_messages[TheActor])
        /\ m \notin Executed(TheActor)
        /\ msg[TheActor] # m

\* C14 witness: a producer's put, whose push_back came after the stop
\* message's, has returned; the worker has executed the stop message and
\* terminated, and the late message is still in the list.
C14_Witness ==
    \E m \in AfterFirstStop(TheActor) :
        /\ m.fn = "_work"
        /\ m \in posted[TheActor]
        /\ pc[m.id[1]] = "idle"
        /\ pc[TheActor] = "done"
        /\ m \in Range(m_messages[TheActor])

\* The actor is a base class sub-object: when actor::~actor begins (its
\* first statement is exit(), actorlib.cpp 23), the destructor of the derived
\* class has completed and the derived class's members are destroyed.
DerivedDestroyed(a) == a = TheActor /\ pc[Owner] # "idle"

\* C15: no handler of the derived class executes once the derived class's
\* state has been destroyed, and the worker is past every access to the
\* list, the mutex and the semaphore once the destructor has destroyed them.
C15_NoUseAfterDestruction ==
    /\ \A r \in running :
          msg[r[2]].fn = "_work" => ~DerivedDestroyed(r[2])
    /\ \A a \in DOMAIN alive : ~alive[a] => pc[a] = "done"

\* the messages the worker has claimed by passing sem_wait and has not yet
\* taken from the list
Claimed(a) == IF pc[a] \in {"run_lock", "run_pop"} THEN 1 ELSE 0

\* C16: the semaphore's count never exceeds the number of messages in the
\* list that the worker has not claimed, so the list is non-empty whenever
\* the worker, past sem_wait, holds the mutex, and the assertion never fails.
C16_SemaphoreCountsMessages ==
    \A a \in DOMAIN m_sem :
        /\ m_sem[a] + Claimed(a) <= Len(m_messages[a])
        /\ pc[a] = "run_pop" => m_messages[a] # <<>>
        /\ pc[a] # "assert_failed"

\* C16 witness: the worker, past sem_wait, holds the mutex while messages of
\* both producers are in the list, one of them not yet posted.
C16_Witness ==
    /\ pc[TheActor] = "run_pop"
    /\ m_mutex[TheActor] = TheActor
    /\ m_sem[TheActor] >= 1
    /\ Len(m_messages[TheActor]) > m_sem[TheActor] + 1
    /\ \E i, j \in 1..Len(m_messages[TheActor]) :
          m_messages[TheActor][i].id[1] # m_messages[TheActor][j].id[1]

\* the thread is at a step of the mailbox protocol (put, or the worker's
\* sem_wait, lock and pop) that it cannot take now
Blocked(t) ==
    \/ pc[t] \in {"put_lock", "put_push", "put_post"} /\ ~ENABLED Put(t)
    \/ /\ pc[t] \in {"sem_wait", "run_lock", "run_pop"}
       /\ ~ENABLED (sem_wait(t) \/ run_lock(t) \/ run_pop(t))

\* C17: the mailbox mutex of an actor is held only by a thread that is at
\* the push_back of a put onto that actor or by the worker at its pop_front
\* (so not while waiting on or posting the semaphore, nor while a handler
\* of the actor executes), and the worker and the threads inside put are
\* never all blocked.
C17_MutexOnlyAroundListAccess ==
    \A a \in DOMAIN m_mutex :
        /\ m_mutex[a] # NoThread =>
              \/ pc[m_mutex[a]] = "put_push" /\ loc[m_mutex[a]].to = a
              \/ m_mutex[a] = a /\ pc[a] = "run_pop"
        /\ LET inPut == {t \in DOMAIN pc : InPut(t) /\ loc[t].to = a}
           IN  inPut # {} => ~(Blocked(a) /\ \A t \in inPut : Blocked(t))

\* C17 witness: the worker holds the mutex at its pop_front while one
\* producer waits for the mutex and the other is about to post.
C17_Witness ==
    /\ m_mutex[TheActor] = TheActor
    /\ \E p, q \in Producers :
          /\ pc[p] = "put_lock" /\ Blocked(p)
          /\ pc[q] = "put_post"

\* C19: m_loop is true exactly as long as the worker has not executed a
\* stop message (true from construction, false from then on), and once it
\* is false the stop message is the last message the worker has executed:
\* the worker is finishing that iteration or has terminated, has taken
\* nothing further from the list and is not at sem_wait again.  The worker
\* terminates only this way.
C19_StopIsLast ==
    \A a \in DOMAIN m_loop :
        /\ m_loop[a] <=> \A m \in Executed(a) : m.fn # "_exit"
        /\ ~m_loop[a] =>
              /\ execOrder[a][Len(execOrder[a])].fn = "_exit"
              /\ \A i \in 1..(Len(execOrder[a]) - 1) : execOrder[a][i].fn # "_exit"
              /\ pc[a] \in {"delete", "done"}
              /\ msg[a] \in {NoMsg, execOrder[a][Len(execOrder[a])]}
        /\ pc[a] = "done" => ~m_loop[a]

\* C19 witness: the worker executed two messages and then a stop message
\* and has terminated, with a posted message left in the list.
C19_Witness ==
    /\ pc[TheActor] = "done"
    /\ ~m_loop[TheActor]
    /\ Len(execOrder[TheActor]) = 3
    /\ m_sem[TheActor] > 0
    /\ m_messages[TheActor] # <<>>

NoDuplicates(s) == \A i, j \in 1..Len(s) : s[i] = s[j] => i = j

\* C20: every message is appended once, executed at most once and deleted
\* at most once: the worker has removed a message from the list when it
\* executes it, and deletes it before it executes the next one.
C20_AtMostOnce ==
    \A a \in DOMAIN execOrder :
        /\ NoDuplicates(pushOrder[a])
        /\ NoDuplicates(execOrder[a])
        /\ NoDuplicates(deleted[a])
        /\ IsPrefix(deleted[a], execOrder[a])
        /\ Len(execOrder[a]) <= Len(deleted[a]) + 1
        /\ Executed(a) \cap Range(m_messages[a]) = {}
        /\ msg[a] \notin Range(m_messages[a])

\* C20 witness: the worker has executed and deleted three messages and is
\* executing a fourth, which is no longer in the list.
C20_Witness ==
    /\ Len(deleted[TheActor]) = 3
    /\ Len(execOrder[TheActor]) = 4
    /\ msg[TheActor] = execOrder[TheActor][4]

\* C21: under fair scheduling (handlers terminate, every thread inside put
\* completes it), once the destructor has started, the worker eventually
\* executes a stop message and terminates, the join returns and the
\* destructor returns.
C21_DestructionTerminates ==
    (pc[Owner] # "idle") ~> (pc[TheActor] = "done" /\ JoinReturned /\ DtorReturned)

\* C21 witness: the destructor has returned after the worker executed the
\* messages of both producers and then the destructor's stop message.
C21_Witness ==
    /\ DtorReturned
    /\ pc[TheActor] = "done"
    /\ Len(execOrder[TheActor]) >= 3
    /\ execOrder[TheActor][Len(execOrder[TheActor])].id[1] = Owner
    /\ \E i, j \in 1..Len(execOrder[TheActor]) :
          {execOrder[TheActor][i].id[1], execOrder[TheActor][j].id[1]} = Producers

\* the destructor has started and the worker has executed the stop message
\* of an earlier exit()
EarlyExit ==
    /\ pc[Owner] # "idle"
    /\ \E m \in Executed(TheActor) : m.fn = "_exit" /\ m.id[1] # Owner

\* C24: when the worker has executed the stop message of an earlier exit(),
\* the destructor's own stop message is never taken from the list nor
\* executed, and the destructor still returns, its join returning because
\* the worker has terminated.
C24_DestructionAfterEarlyExit ==
    /\ [](EarlyExit =>
            \A m \in Executed(TheActor) \cup {msg[TheActor]} : m.id[1] # Owner)
    /\ EarlyExit ~> (DtorReturned /\ pc[TheActor] = "done")

\* C24 witness: the destructor has returned; the worker had executed a
\* producer's stop message and terminated, and the destructor's stop
\* message, posted, is still in the list.
C24_Witness ==
    /\ DtorReturned
    /\ EarlyExit
    /\ m_sem[TheActor] > 0
    /\ \E i \in 1..Len(m_messages[TheActor]) : m_messages[TheActor][i].id[1] = Owner

-----------------------------------------------------------------------------
(* result<R>::data, actorlib.hpp 85-147.  frees counts the executions of  *)
(* `delete this`; uaf records a use of the object after it was deleted.    *)

\* R(), the default argument of result<R>'s constructor, for R = int
DefaultValue == 0

\* the values a handler may return
Values == {1, 2}

\* result(const R &v = R()) : m_data(new data(v)); data::data(const R &v)
NewData(v) ==
    [m_ref_count |-> 1, m_value |-> v, m_value_set |-> FALSE,
     frees |-> 0, uaf |-> FALSE]

Freed(d) == d.frees > 0

\* faulty variant of inc_ref: the count is not incremented
inc_ref_skip(d) == [d EXCEPT !.uaf = @ \/ Freed(d)]

\* data::inc_ref: lock; ++m_ref_count; unlock
inc_ref(d) ==
    [d EXCEPT !.m_ref_count = @ + 1, !.uaf = @ \/ Freed(d)]

\* data::dec_ref: lock; delete_this = --m_ref_count == 0; unlock;
\* if (delete_this) delete this
dec_ref(d) ==
    [d EXCEPT !.m_ref_count = IF @ > 0 THEN @ - 1 ELSE 0,
              !.frees = IF d.m_ref_count = 1 THEN @ + 1 ELSE @,
              !.uaf = @ \/ Freed(d)]

\* faulty variant of data_set: a repeated set() clears the flag and keeps the old value
data_set_once(d, v) ==
    [d EXCEPT !.m_value = IF d.m_value_set THEN @ ELSE v,
              !.m_value_set = ~@, !.uaf = @ \/ Freed(d)]

\* data::set up to the unlock: lock; m_value = v; m_value_set = true; unlock
data_set(d, v) ==
    [d EXCEPT !.m_value = v, !.m_value_set = TRUE, !.uaf = @ \/ Freed(d)]

\* the threads blocked in pthread_cond_wait on future f
Waiters(f) == {t \in DOMAIN pc : pc[t] = "cond_wait" /\ loc[t].f = f}

\* the thread's log before its first call of get(): the calls of set() that
\* had returned (n) and the values that had been stored (last) when get()
\* took the mutex, and whether it then waited
NoGet == [n |-> 0, last |-> 0, waited |-> FALSE]

\* the future a thread in data::set is setting: the worker's message's
\* result, or the future a thread sets directly
SetTarget(t) == IF t \in DOMAIN msg THEN msg[t].res ELSE loc[t].f

\* the calls of set() on future f that have returned
SetsCompleted(f) ==
    Len(setLog[f])
      - Cardinality({t \in DOMAIN pc : pc[t] = "set_signal" /\ SetTarget(t) = f})

\* faulty variant of get_enter: get() waits on the condition whether or not the
\* value is set
get_enter_wait(t) ==
    /\ pc[t] = "get"
    /\ getLog' = [getLog EXCEPT ![t] = [n |-> SetsCompleted(loc[t].f),
                                        last |-> Len(setLog[loc[t].f]),
                                        waited |-> TRUE]]
    /\ pc' = [pc EXCEPT ![t] = "cond_wait"]
    /\ UNCHANGED <<handle, pp, fut, loc, m_loop, m_messages, m_sem, m_mutex, msg, alive,
                   pushOrder, posted, execOrder, running, preStop,
                   setLog, deleted, argvar>>

\* data::get, actorlib.hpp 132-133: lock; if (!m_value_set) pthread_cond_wait
\* (which releases the mutex and blocks); else 134-136: r = m_value; unlock
get_enter(t) ==
    /\ pc[t] = "get"
    /\ getLog' = [getLog EXCEPT ![t] = [n |-> SetsCompleted(loc[t].f),
                                        last |-> Len(setLog[loc[t].f]),
                                        waited |-> ~fut[loc[t].f].m_value_set]]
    /\ IF fut[loc[t].f].m_value_set
       THEN /\ loc' = [loc EXCEPT ![t].v = fut[loc[t].f].m_value]
            /\ pc' = [pc EXCEPT ![t] = "got"]
       ELSE /\ pc' = [pc EXCEPT ![t] = "cond_wait"]
            /\ UNCHANGED loc
    /\ UNCHANGED <<handle, pp, fut, m_loop, m_messages, m_sem, m_mutex, msg, alive,
                   pushOrder, posted, execOrder, running, preStop,
                   setLog, deleted, argvar>>

\* pthread_cond_wait returns without a signal (a spurious wakeup, which
\* POSIX permits); the thread still has to re-acquire the mutex
spurious_wakeup(t) ==
    /\ pc[t] = "cond_wait"
    /\ pc' = [pc EXCEPT ![t] = "woken"]
    /\ UNCHANGED <<handle, pp, fut, loc, m_loop, m_messages, m_sem, m_mutex, msg, alive,
                   pushOrder, posted, execOrder, running, preStop, obs>>

\* data::get after pthread_cond_wait has returned with the mutex held,
\* actorlib.hpp 134-136: R r = m_value; unlock; return r
get_return(t) ==
    /\ pc[t] = "woken"
    /\ loc' = [loc EXCEPT ![t].v = fut[loc[t].f].m_value]
    /\ pc' = [pc EXCEPT ![t] = "got"]
    /\ UNCHANGED <<handle, pp, fut, m_loop, m_messages, m_sem, m_mutex, msg, alive,
                   pushOrder, posted, execOrder, running, preStop, obs>>

\* msg->exec() for a handler that returns a value:
\* object_message_N<C, R, ...>::exec -> invoker<C, R>::exec, the call
\* (o->*f)(...) of a handler that only computes its return value
exec_value(a) ==
    /\ pc[a] = "exec"
    /\ msg[a].fn \in {"_value", "_get"}
    /\ execOrder' = [execOrder EXCEPT ![a] = Append(@, msg[a])]
    /\ running' = running \cup {<<a, a, msg[a].id>>}
    /\ pc' = [pc EXCEPT ![a] = "set"]
    /\ UNCHANGED <<handle, pp, fut, loc, m_loop, m_messages, m_sem, m_mutex, msg, alive,
                   pushOrder, posted, preStop, obs>>

\* what the handler of the worker's current message returns: integer::_get
\* (main.cpp 48-50) returns m_value, the test handler its argument
HandlerResult(a) == IF msg[a].fn = "_get" THEN m_value[a] ELSE msg[a].arg

\* invoker<C, R>::exec: r = <returned value>, that is result<R>::operator=
\* (const R &) -> data::set, actorlib.hpp 141-144
set_store(a) ==
    /\ pc[a] = "set"
    /\ fut' = [fut EXCEPT ![msg[a].res] = data_set(@, HandlerResult(a))]
    /\ setLog' = [setLog EXCEPT ![msg[a].res] = Append(@, HandlerResult(a))]
    /\ running' = running \ {<<a, a, msg[a].id>>}
    /\ pc' = [pc EXCEPT ![a] = "set_signal"]
    /\ UNCHANGED <<handle, pp, loc, m_loop, m_messages, m_sem, m_mutex, msg, alive,
                   pushOrder, posted, execOrder, preStop, getLog, deleted, argvar>>

\* the threads pthread_cond_signal may unblock: at least one of those
\* blocked on the condition variable, if there is any
Signalled(W) == {S \in SUBSET W : W # {} => S # {}}

\* data::set, actorlib.hpp 145: pthread_cond_signal(&m_cond)
set_signal(a) ==
    /\ pc[a] = "set_signal"
    /\ \E S \in Signalled(Waiters(msg[a].res)) :
          pc' = [t \in DOMAIN pc |->
                    IF t = a THEN "delete" ELSE IF t \in S THEN "woken" ELSE pc[t]]
    /\ UNCHANGED <<handle, pp, fut, loc, m_loop, m_messages, m_sem, m_mutex, msg, alive,
                   pushOrder, posted, execOrder, running, preStop, obs>>

\* delete msg: ~object_message destroys m_result (result<R>::~result ->
\* dec_ref); then the loop condition
delete_value(a) ==
    /\ pc[a] = "delete"
    /\ msg[a].res # 0
    /\ fut' = [fut EXCEPT ![msg[a].res] = dec_ref(@)]
    /\ deleted' = [deleted EXCEPT ![a] = Append(@, msg[a])]
    /\ msg' = [msg EXCEPT ![a] = NoMsg]
    /\ pc' = [pc EXCEPT ![a] = loop_test(a, m_loop[a])]
    /\ UNCHANGED <<handle, pp, loc, m_loop, m_messages, m_sem, m_mutex, alive,
                   pushOrder, posted, execOrder, running, preStop,
                   getLog, setLog, argvar>>

-----------------------------------------------------------------------------
(* One actor, one caller that enqueues a value-returning handler and      *)
(* hands copies of the returned future to other threads.                  *)

Caller == "c"

Getters == {"g1", "g2"}

\* a caller's variable before any call
NoArg == [var |-> 0, sent |-> 0, changed |-> FALSE]

\* faulty variant of call_value: the message takes no reference of its own
call_value_borrow(c, v) ==
    /\ pc[c] = "idle"
    /\ fut' = Append(fut, NewData(DefaultValue))
    /\ argvar' = [argvar EXCEPT ![c] = [var |-> v, sent |-> v, changed |-> FALSE]]
    /\ loc' = [loc EXCEPT ![c] = [to |-> TheActor,
                                  m |-> Message(c, 1, "_value", argvar'[c].var, Len(fut) + 1),
                                  ret |-> "have", n |-> 1,
                                  f |-> Len(fut) + 1, v |-> 0]]
    /\ setLog' = Append(setLog, <<>>)
    /\ pc' = [pc EXCEPT ![c] = "put_lock"]
    /\ UNCHANGED <<handle, pp, m_loop, m_messages, m_sem, m_mutex, msg, alive,
                   pushOrder, posted, execOrder, running, preStop,
                   getLog, deleted>>

\* faulty variant of call_value: the message does not copy the argument
call_value_nocopy(c, v) ==
    /\ pc[c] = "idle"
    /\ fut' = Append(fut, inc_ref(NewData(DefaultValue)))
    /\ argvar' = [argvar EXCEPT ![c] = [var |-> v, sent |-> v, changed |-> FALSE]]
    /\ loc' = [loc EXCEPT ![c] = [to |-> TheActor,
                                  m |-> Message(c, 1, "_value", DefaultValue, Len(fut) + 1),
                                  ret |-> "have", n |-> 1,
                                  f |-> Len(fut) + 1, v |-> 0]]
    /\ setLog' = Append(setLog, <<>>)
    /\ pc' = [pc EXCEPT ![c] = "put_lock"]
    /\ UNCHANGED <<handle, pp, m_loop, m_messages, m_sem, m_mutex, msg, alive,
                   pushOrder, posted, execOrder, running, preStop,
                   getLog, deleted>>

\* template put with one parameter, actorlib.hpp 196-200, up to the call of
\* put(message *), called with the caller's variable (holding v) as t1:
\* result<R> r (a new data, count 1); the message copies r (object_message's
\* m_result(r), inc_ref) and copies the argument (object_message_1's m_t1(t1))
call_value(c, v) ==
    /\ pc[c] = "idle"
    /\ fut' = Append(fut, inc_ref(NewData(DefaultValue)))
    /\ argvar' = [argvar EXCEPT ![c] = [var |-> v, sent |-> v, changed |-> FALSE]]
    /\ loc' = [loc EXCEPT ![c] = [to |-> TheActor,
                                  m |-> Message(c, 1, "_value", argvar'[c].var, Len(fut) + 1),
                                  ret |-> "have", n |-> 1,
                                  f |-> Len(fut) + 1, v |-> 0]]
    /\ setLog' = Append(setLog, <<>>)
    /\ pc' = [pc EXCEPT ![c] = "put_lock"]
    /\ UNCHANGED <<handle, pp, m_loop, m_messages, m_sem, m_mutex, msg, alive,
                   pushOrder, posted, execOrder, running, preStop,
                   getLog, deleted>>

\* after put has returned, the caller assigns w to the variable it passed;
\* changed records that the handler had not started by then
modify(c, w) ==
    /\ pc[c] = "have"
    /\ argvar[c].var = argvar[c].sent
    /\ w # argvar[c].var
    /\ argvar' = [argvar EXCEPT ![c].var = w,
                                ![c].changed = loc[c].m \notin Range(execOrder[loc[c].to])]
    /\ UNCHANGED <<pc, loc, ext, m_loop, m_messages, m_sem, m_mutex, msg, alive,
                   pushOrder, posted, execOrder, running, preStop,
                   getLog, setLog, deleted>>

\* the caller copies its handle for another thread (result's copy
\* constructor, actorlib.hpp 28-30), which then calls get() on the copy
share(c, g) ==
    /\ pc[c] = "have"
    /\ pc[g] = "idle"
    /\ fut' = [fut EXCEPT ![loc[c].f] = inc_ref(@)]
    /\ loc' = [loc EXCEPT ![g].f = loc[c].f]
    /\ pc' = [pc EXCEPT ![g] = "get"]
    /\ UNCHANGED <<handle, pp, m_loop, m_messages, m_sem, m_mutex, msg, alive,
                   pushOrder, posted, execOrder, running, preStop, obs>>

\* the caller calls get() on its own handle (result<R>::get, hpp 53-55)
call_get(c) ==
    /\ pc[c] = "have"
    /\ pc' = [pc EXCEPT ![c] = "get"]
    /\ UNCHANGED <<handle, pp, fut, loc, m_loop, m_messages, m_sem, m_mutex, msg, alive,
                   pushOrder, posted, execOrder, running, preStop, obs>>

\* a thread releases its handle (result<R>::~result, hpp 34-36), with or
\* without having called get()
drop(t) ==
    /\ pc[t] \in {"have", "got"}
    /\ fut' = [fut EXCEPT ![loc[t].f] = dec_ref(@)]
    /\ pc' = [pc EXCEPT ![t] = "end"]
    /\ UNCHANGED <<handle, pp, loc, m_loop, m_messages, m_sem, m_mutex, msg, alive,
                   pushOrder, posted, execOrder, running, preStop, obs>>

InitFuture ==
    /\ pc = [t \in {TheActor, Caller} \cup Getters |->
                IF t = TheActor THEN "sem_wait" ELSE "idle"]
    /\ loc = [t \in {TheActor, Caller} \cup Getters |-> NoLoc]
    /\ m_loop = [a \in {TheActor} |-> TRUE]
    /\ m_messages = [a \in {TheActor} |-> <<>>]
    /\ m_sem = [a \in {TheActor} |-> 0]
    /\ m_mutex = [a \in {TheActor} |-> NoThread]
    /\ msg = [a \in {TheActor} |-> NoMsg]
    /\ alive = [a \in {TheActor} |-> TRUE]
    /\ pushOrder = [a \in {TheActor} |-> <<>>]
    /\ posted = [a \in {TheActor} |-> {}]
    /\ execOrder = [a \in {TheActor} |-> <<>>]
    /\ running = {}
    /\ preStop = {}
    /\ fut = <<>>
    /\ m_value = [a \in {TheActor} |-> 0]
    /\ reads = <<>>
    /\ handle = <<>>
    /\ n0 = 0
    /\ getLog = [t \in {Caller} \cup Getters |-> NoGet]
    /\ setLog = <<>>
    /\ deleted = [a \in {TheActor} |-> <<>>]
    /\ argvar = [c \in {Caller} |-> NoArg]

WorkerValue(a) ==
    \/ sem_wait(a)
    \/ run_lock(a)
    \/ run_pop(a)
    \/ exec_value(a)
    \/ set_store(a)
    \/ set_signal(a)
    \/ delete_value(a)

Get(t) ==
    \/ get_enter(t)
    \/ get_return(t)

NextFuture ==
    \/ \E v \in Values : call_value(Caller, v)
    \/ \E w \in Values : modify(Caller, w)
    \/ Put(Caller)
    \/ \E g \in Getters : share(Caller, g)
    \/ call_get(Caller)
    \/ \E t \in {Caller} \cup Getters : Get(t) \/ spurious_wakeup(t) \/ drop(t)
    \/ WorkerValue(TheActor)

SpecFuture == InitFuture /\ [][NextFuture]_vars

\* the message whose handler's return value future f receives
Paired(f) == CHOOSE m \in Range(pushOrder[TheActor]) : m.res = f

-----------------------------------------------------------------------------
(* Properties of get() and set() (SpecFuture) *)

\* C2: no get() returns before the paired handler has finished executing
\* and set() has stored its return value: a thread that has just returned
\* from get() finds the future set.
C2_GetAfterSet ==
    \A t \in DOMAIN pc : pc[t] = "got" => fut[loc[t].f].m_value_set

\* C3: when set() is called, every thread suspended in get() on that future
\* is woken: once set() has returned, no thread is still blocked in the
\* condition wait of that future.
C3_SetWakesAllWaiters ==
    \A f \in DOMAIN fut :
        (fut[f].m_value_set /\ ~(pc[TheActor] = "set_signal" /\ msg[TheActor].res = f))
            => Waiters(f) = {}

\* C4: every get() that returns, returns the value the paired handler
\* returned.
C4_GetReturnsHandlerValue ==
    \A t \in DOMAIN pc : pc[t] = "got" => loc[t].v = Paired(loc[t].f).arg

\* C11: a call of get() that starts when set() has completed on its future
\* does not enter the condition wait, and returns the stored value.
C11_GetAfterSetNoWait ==
    \A t \in DOMAIN getLog :
        getLog[t].n > 0 =>
            /\ ~getLog[t].waited
            /\ pc[t] \notin {"cond_wait", "woken"}
            /\ pc[t] \in {"got", "end"} =>
                  \E k \in getLog[t].n .. Len(setLog[loc[t].f]) :
                      loc[t].v = setLog[loc[t].f][k]

\* C11 witness: a thread that received a copy of the handle called get()
\* after set() had returned, and has the value.
C11_Witness ==
    \E g \in Getters :
        /\ pc[g] = "got"
        /\ getLog[g].n > 0
        /\ loc[g].v \in Values

\* C13: the argument a handler receives is the value the caller's variable
\* had when the enqueue was performed: the message holds that value, and the
\* handler (which returns its argument) observes it, whatever the caller
\* assigns to the variable after the enqueue returned.
C13_ArgsCapturedAtEnqueue ==
    \A m \in Range(pushOrder[TheActor]) :
        m.fn = "_value" =>
            /\ m.arg = argvar[m.id[1]].sent
            /\ \A k \in 1..Len(setLog[m.res]) : setLog[m.res][k] = argvar[m.id[1]].sent

\* C13 witness: the caller changed its variable after the enqueue returned
\* and before the handler started, and the handler has returned the value
\* the variable had at the enqueue.
C13_Witness ==
    /\ argvar[Caller].changed
    /\ argvar[Caller].var # argvar[Caller].sent
    /\ \E f \in DOMAIN setLog : setLog[f] = <<argvar[Caller].sent>>

\* the messages that exist: being appended, queued, or held by a worker
\* (until `delete msg`)
LiveMessages ==
    {loc[t].m : t \in {u \in DOMAIN pc : pc[u] \in {"put_lock", "put_push"}}}
      \cup UNION {Range(m_messages[a]) : a \in DOMAIN m_messages}
      \cup {msg[a] : a \in DOMAIN msg}

\* C22: the storage of a future is alive as long as the message that
\* holds a handle to it exists, in particular during the whole of the
\* worker's set() (the store and the signal after the unlock), however
\* many of the callers' handles have been released; no freed storage is
\* ever used.
C22_StorageAliveDuringSet ==
    /\ \A m \in LiveMessages :
          m.res # 0 => ~Freed(fut[m.res]) /\ fut[m.res].m_ref_count >= 1
    /\ \A f \in DOMAIN fut : ~fut[f].uaf

\* C22 witness: the worker is between the unlock and the signal of set()
\* while the caller has released its handle and a getter has returned from
\* get() with the value and released its copy: the message's handle is the
\* only one left.
C22_Witness ==
    /\ pc[TheActor] = "set_signal"
    /\ fut[msg[TheActor].res].m_ref_count = 1
    /\ pc[Caller] = "end"
    /\ \E g \in Getters :
          /\ pc[g] = "end"
          /\ loc[g].f = msg[TheActor].res
          /\ loc[g].v = msg[TheActor].arg

-----------------------------------------------------------------------------
(* The ping/pong example, examples/pingpong/main.cpp: a console actor, an *)
(* integer actor `value`, and the actors ping and pong.                   *)

MaxN == 2

PPActors == {"console", "value", "ping", "pong"}

Main == "main"

\* ping::m_pong, pong::m_ping
Peer(a) == IF a = "ping" THEN "pong" ELSE "ping"

\* ping::_do_ping forwards with m_pong->do_pong(), pong::_do_pong with
\* m_ping->do_ping()
PeerHandler(a) == IF a = "ping" THEN "_do_pong" ELSE "_do_ping"

\* msg->exec() for integer::_set, main.cpp 53-55: m_value = v
exec_set(a) ==
    /\ pc[a] = "exec"
    /\ msg[a].fn = "_set"
    /\ m_value' = [m_value EXCEPT ![a] = msg[a].arg]
    /\ execOrder' = [execOrder EXCEPT ![a] = Append(@, msg[a])]
    /\ running' = running \cup {<<a, a, msg[a].id>>}
    /\ pc' = [pc EXCEPT ![a] = "delete"]
    /\ UNCHANGED <<handle, fut, reads, n0, loc, m_loop, m_messages, m_sem, m_mutex, msg,
                   alive, pushOrder, posted, preStop, obs>>

\* msg->exec() for ping::_do_ping / pong::_do_pong, main.cpp 110 / 123, up
\* to the call of put(message *): m_value->get() is integer::get (main.cpp
\* 34-36), the template put with no parameter (actorlib.hpp 186-190), which
\* makes a result<int> and a message holding a copy of it; the returned
\* result<int> is then converted to int (operator R, hpp 61-63 -> data::get)
pp_begin(a) ==
    /\ pc[a] = "exec"
    /\ msg[a].fn \in {"_do_ping", "_do_pong"}
    /\ execOrder' = [execOrder EXCEPT ![a] = Append(@, msg[a])]
    /\ running' = running \cup {<<a, a, msg[a].id>>}
    /\ fut' = Append(fut, inc_ref(NewData(DefaultValue)))
    /\ loc' = [loc EXCEPT ![a] = [to |-> "value",
                                  m |-> Message(a, loc[a].n + 1, "_get", 0, Len(fut) + 1),
                                  ret |-> "get", n |-> loc[a].n + 1,
                                  f |-> Len(fut) + 1, v |-> 0]]
    /\ setLog' = Append(setLog, <<>>)
    /\ pc' = [pc EXCEPT ![a] = "put_lock"]
    /\ UNCHANGED <<handle, pp, m_loop, m_messages, m_sem, m_mutex, msg, alive,
                   pushOrder, posted, preStop, getLog, deleted, argvar>>

\* main.cpp 110-114 / 123-127: int v = <get() returned>, the temporary
\* result<int> is destroyed (dec_ref); if (v > 0) m_console->print(...)
\* (main.cpp 14-16, template put with one parameter) up to put(message *);
\* otherwise the handler returns
pp_branch(a) ==
    /\ pc[a] = "got"
    /\ reads' = Append(reads, loc[a].v)
    /\ fut' = [fut EXCEPT ![loc[a].f] = dec_ref(@)]
    /\ IF loc[a].v > 0
       THEN /\ loc' = [loc EXCEPT ![a].to = "console",
                                  ![a].m = Message(a, loc[a].n + 1, "_print", loc[a].v, 0),
                                  ![a].ret = "pp_set",
                                  ![a].n = loc[a].n + 1]
            /\ pc' = [pc EXCEPT ![a] = "put_lock"]
       ELSE /\ pc' = [pc EXCEPT ![a] = "delete"]
            /\ UNCHANGED loc
    /\ UNCHANGED <<handle, m_value, n0, m_loop, m_messages, m_sem, m_mutex, msg, alive,
                   pushOrder, posted, execOrder, running, preStop, obs>>

\* main.cpp 115 / 128: m_value->set(v - 1), integer::set (main.cpp 39-41),
\* up to put(message *)
pp_set(a) ==
    /\ pc[a] = "pp_set"
    /\ loc' = [loc EXCEPT ![a].to = "value",
                          ![a].m = Message(a, loc[a].n + 1, "_set", loc[a].v - 1, 0),
                          ![a].ret = "pp_fwd",
                          ![a].n = loc[a].n + 1]
    /\ pc' = [pc EXCEPT ![a] = "put_lock"]
    /\ UNCHANGED <<handle, fut, pp, m_loop, m_messages, m_sem, m_mutex, msg, alive,
                   pushOrder, posted, execOrder, running, preStop, obs>>

\* main.cpp 116 / 129: m_pong->do_pong() / m_ping->do_ping() (main.cpp
\* 70-72 / 93-95), up to put(message *); the handler returns after it
pp_fwd(a) ==
    /\ pc[a] = "pp_fwd"
    /\ loc' = [loc EXCEPT ![a].to = Peer(a),
                          ![a].m = Message(a, loc[a].n + 1, PeerHandler(a), 0, 0),
                          ![a].ret = "delete",
                          ![a].n = loc[a].n + 1]
    /\ pc' = [pc EXCEPT ![a] = "put_lock"]
    /\ UNCHANGED <<handle, fut, pp, m_loop, m_messages, m_sem, m_mutex, msg, alive,
                   pushOrder, posted, execOrder, running, preStop, obs>>

\* main, main.cpp 144-145: pong_.do_pong(), then getchar()
main_do_pong(m) ==
    /\ pc[m] = "idle"
    /\ loc' = [loc EXCEPT ![m] = [to |-> "pong",
                                  m |-> Message(m, 1, "_do_pong", 0, 0),
                                  ret |-> "getchar", n |-> 1, f |-> 0, v |-> 0]]
    /\ pc' = [pc EXCEPT ![m] = "put_lock"]
    /\ UNCHANGED <<handle, fut, pp, m_loop, m_messages, m_sem, m_mutex, msg, alive,
                   pushOrder, posted, execOrder, running, preStop, obs>>

\* the global objects of main.cpp 135-139, with integer value(N)
InitPP ==
    /\ pc = [t \in PPActors \cup {Main} |-> IF t = Main THEN "idle" ELSE "sem_wait"]
    /\ loc = [t \in PPActors \cup {Main} |-> NoLoc]
    /\ m_loop = [a \in PPActors |-> TRUE]
    /\ m_messages = [a \in PPActors |-> <<>>]
    /\ m_sem = [a \in PPActors |-> 0]
    /\ m_mutex = [a \in PPActors |-> NoThread]
    /\ msg = [a \in PPActors |-> NoMsg]
    /\ alive = [a \in PPActors |-> TRUE]
    /\ pushOrder = [a \in PPActors |-> <<>>]
    /\ posted = [a \in PPActors |-> {}]
    /\ execOrder = [a \in PPActors |-> <<>>]
    /\ running = {}
    /\ preStop = {}
    /\ fut = <<>>
    /\ n0 \in 0..MaxN
    /\ m_value = [a \in PPActors |-> IF a = "value" THEN n0 ELSE 0]
    /\ reads = <<>>
    /\ handle = <<>>
    /\ getLog = [t \in PPActors |-> NoGet]
    /\ setLog = <<>>
    /\ deleted = [a \in PPActors |-> <<>>]
    /\ argvar = <<>>

WorkerPP(a) ==
    \/ sem_wait(a)
    \/ run_lock(a)
    \/ run_pop(a)
    \/ exec_void(a)
    \/ exec_set(a)
    \/ exec_value(a)
    \/ set_store(a)
    \/ set_signal(a)
    \/ delete_void(a)
    \/ delete_value(a)
    \/ pp_begin(a)
    \/ Get(a)
    \/ spurious_wakeup(a)
    \/ pp_branch(a)
    \/ pp_set(a)
    \/ pp_fwd(a)
    \/ Put(a)

NextPP ==
    \/ main_do_pong(Main)
    \/ Put(Main)
    \/ \E a \in PPActors : WorkerPP(a)

SpecPP == InitPP /\ [][NextPP]_vars

\* the arguments of the integer::_set handlers executed so far, in order
RECURSIVE SetArgs(_)
SetArgs(s) ==
    IF s = <<>> THEN <<>>
    ELSE (IF Head(s).fn = "_set" THEN <<Head(s).arg>> ELSE <<>>) \o SetArgs(Tail(s))

Decrements == SetArgs(execOrder["value"])

\* all mailboxes empty, all workers waiting for a message, main in getchar
Quiescent ==
    /\ pc[Main] = "getchar"
    /\ \A a \in PPActors :
          pc[a] = "sem_wait" /\ m_messages[a] = <<>> /\ m_sem[a] = 0

-----------------------------------------------------------------------------
(* Properties of the ping/pong example (SpecPP) *)

\* C9: for an integer actor constructed with N, each read by ping or pong
\* observes the value written by the immediately preceding decrement (the
\* first read observes N), and when the system is quiescent exactly N
\* decrements have been executed and the integer's value is 0.
C9_PingPongCountsDown ==
    /\ \A k \in 1..Len(reads) :
          reads[k] = IF k = 1 THEN n0 ELSE Decrements[k - 1]
    /\ Quiescent => /\ Len(Decrements) = n0
                    /\ m_value["value"] = 0

\* C12: an enqueue never waits for execution.  A thread inside put can
\* always take its next step, whatever the target's worker is doing, unless
\* the mailbox mutex is held by a thread that is at the push_back of its own
\* put or at the worker's pop_front, and that thread can take its step.
C12_PutNeverWaitsForExecution ==
    \A t \in DOMAIN pc :
        InPut(t) =>
            \/ ENABLED Put(t)
            \/ \E h \in DOMAIN pc :
                  /\ m_mutex[loc[t].to] = h
                  /\ pc[h] \in {"put_push", "run_pop"}
                  /\ ENABLED (put_push(h) \/ run_pop(h))

\* C12 witness: pong's handler has returned after enqueueing onto ping, ping's
\* handler is still running, and ping's put of _get onto the integer actor
\* has returned, the message not yet executed, while the integer's worker is
\* still executing the earlier _set.
C12_Witness ==
    /\ pc["pong"] = "sem_wait" /\ Len(execOrder["pong"]) = 1
    /\ pc["ping"] = "get"
    /\ loc["ping"].m \in posted["value"] \ Range(execOrder["value"])
    /\ pc["value"] = "delete" /\ msg["value"].fn = "_set"
    /\ <<"value", "value", msg["value"].id>> \in running

-----------------------------------------------------------------------------
(* One future, result<int> r, shared by threads that call set() and get() *)
(* on it directly (result<R>::set / operator=(const R &), hpp 69-81, and   *)
(* result<R>::get / operator R, hpp 53-63).                                *)

MaxOps == 4

Users == {"u1", "u2", "u3"}

\* the calls of set() and get() started so far
OpsMade == SumOver([t \in Users |-> loc[t].n], Users)

\* result<R>::set -> data::set up to the unlock (hpp 141-144)
user_set(t, v) ==
    /\ pc[t] = "idle"
    /\ OpsMade < MaxOps
    /\ fut' = [fut EXCEPT ![loc[t].f] = data_set(@, v)]
    /\ setLog' = [setLog EXCEPT ![loc[t].f] = Append(@, v)]
    /\ loc' = [loc EXCEPT ![t].n = @ + 1]
    /\ pc' = [pc EXCEPT ![t] = "set_signal"]
    /\ UNCHANGED <<handle, pp, mailbox, hist, getLog, deleted, argvar>>

\* data::set, hpp 145: pthread_cond_signal(&m_cond); set() returns
user_set_signal(t) ==
    /\ pc[t] = "set_signal"
    /\ \E S \in Signalled(Waiters(loc[t].f)) :
          pc' = [u \in DOMAIN pc |->
                    IF u = t THEN "idle" ELSE IF u \in S THEN "woken" ELSE pc[u]]
    /\ UNCHANGED <<handle, pp, fut, loc, mailbox, hist, obs>>

\* a thread calls get() on the future
user_get(t) ==
    /\ pc[t] = "idle"
    /\ OpsMade < MaxOps
    /\ loc' = [loc EXCEPT ![t].n = @ + 1]
    /\ pc' = [pc EXCEPT ![t] = "get"]
    /\ UNCHANGED <<handle, pp, fut, mailbox, hist, obs>>

\* get() has returned to its caller, which goes on
get_done(t) ==
    /\ pc[t] = "got"
    /\ pc' = [pc EXCEPT ![t] = "idle"]
    /\ UNCHANGED <<handle, pp, fut, loc, mailbox, hist, obs>>

\* result<int> r: result's constructor (hpp 23) with R() = 0, and a copy of
\* the handle for each thread
InitSet ==
    /\ pc = [t \in Users |-> "idle"]
    /\ loc = [t \in Users |-> [NoLoc EXCEPT !.f = 1]]
    /\ fut = <<[NewData(DefaultValue) EXCEPT !.m_ref_count = Cardinality(Users)]>>
    /\ setLog = << <<>> >>
    /\ getLog = [t \in Users |-> NoGet]
    /\ m_loop = <<>>
    /\ m_messages = <<>>
    /\ m_sem = <<>>
    /\ m_mutex = <<>>
    /\ msg = <<>>
    /\ alive = <<>>
    /\ pushOrder = <<>>
    /\ posted = <<>>
    /\ execOrder = <<>>
    /\ running = {}
    /\ preStop = {}
    /\ m_value = <<>>
    /\ reads = <<>>
    /\ n0 = 0
    /\ handle = <<>>
    /\ deleted = <<>>
    /\ argvar = <<>>

NextSet ==
    \E t \in Users :
        \/ \E v \in Values : user_set(t, v)
        \/ user_set_signal(t)
        \/ user_get(t)
        \/ Get(t)
        \/ spurious_wakeup(t)
        \/ get_done(t)

SpecSet == InitSet /\ [][NextSet]_vars

-----------------------------------------------------------------------------
(* Properties of repeated set() (SpecSet) *)

\* C18: the flag of a future is set exactly if set() has stored a value,
\* however many times (it is never cleared); the stored value is the one
\* of the latest set(); and a get() that starts after a set() has returned
\* does not wait and returns the value that was the latest stored when it
\* read.
C18_SetFlagMonotonic ==
    /\ \A f \in DOMAIN fut :
          /\ fut[f].m_value_set <=> setLog[f] # <<>>
          /\ setLog[f] # <<>> => fut[f].m_value = setLog[f][Len(setLog[f])]
    /\ \A t \in DOMAIN getLog :
          getLog[t].n > 0 =>
              /\ ~getLog[t].waited
              /\ pc[t] \notin {"cond_wait", "woken"}
              /\ pc[t] = "got" => loc[t].v = setLog[loc[t].f][getLog[t].last]

\* C18 witness: set() has stored two different values, and a get() that
\* started after both calls had returned has returned the second value.
C18_Witness ==
    \E t \in Users :
        /\ pc[t] = "got"
        /\ getLog[t].n = 2 /\ ~getLog[t].waited
        /\ Len(setLog[1]) = 2 /\ setLog[1][1] # setLog[1][2]
        /\ loc[t].v = setLog[1][2]

-----------------------------------------------------------------------------
(* An actor one of whose handlers, _self, calls a value-returning public  *)
(* method of its own object and reads the result: int v = get(), with     *)
(* get() as integer::get (main.cpp 34-36).  The owner destroys the actor. *)

\* msg->exec() for _self up to the call of put(message *): the template put
\* with no parameter (actorlib.hpp 186-190) makes a result<int> and a
\* message for this same actor holding a copy of it; the returned
\* result<int> is then converted to int (operator R, hpp 61-63 -> data::get)
self_begin(a) ==
    /\ pc[a] = "exec"
    /\ msg[a].fn = "_self"
    /\ execOrder' = [execOrder EXCEPT ![a] = Append(@, msg[a])]
    /\ running' = running \cup {<<a, a, msg[a].id>>}
    /\ fut' = Append(fut, inc_ref(NewData(DefaultValue)))
    /\ setLog' = Append(setLog, <<>>)
    /\ loc' = [loc EXCEPT ![a] = [to |-> a,
                                  m |-> Message(a, loc[a].n + 1, "_get", 0, Len(fut) + 1),
                                  ret |-> "get", n |-> loc[a].n + 1,
                                  f |-> Len(fut) + 1, v |-> 0]]
    /\ pc' = [pc EXCEPT ![a] = "put_lock"]
    /\ UNCHANGED <<handle, pp, m_loop, m_messages, m_sem, m_mutex, msg, alive,
                   pushOrder, posted, preStop, getLog, deleted, argvar>>

\* get() has returned: the temporary result<int> is destroyed (dec_ref) and
\* the handler returns
self_end(a) ==
    /\ pc[a] = "got"
    /\ reads' = Append(reads, loc[a].v)
    /\ fut' = [fut EXCEPT ![loc[a].f] = dec_ref(@)]
    /\ pc' = [pc EXCEPT ![a] = "delete"]
    /\ UNCHANGED <<handle, m_value, n0, loc, mailbox, hist, obs>>

\* actor::actor, with the derived class's value 1
InitSelf ==
    /\ pc = [t \in {TheActor} \cup Producers \cup {Owner} |->
                IF t = TheActor THEN "sem_wait" ELSE "idle"]
    /\ loc = [t \in {TheActor} \cup Producers \cup {Owner} |-> NoLoc]
    /\ m_loop = [a \in {TheActor} |-> TRUE]
    /\ m_messages = [a \in {TheActor} |-> <<>>]
    /\ m_sem = [a \in {TheActor} |-> 0]
    /\ m_mutex = [a \in {TheActor} |-> NoThread]
    /\ msg = [a \in {TheActor} |-> NoMsg]
    /\ alive = [a \in {TheActor} |-> TRUE]
    /\ pushOrder = [a \in {TheActor} |-> <<>>]
    /\ posted = [a \in {TheActor} |-> {}]
    /\ execOrder = [a \in {TheActor} |-> <<>>]
    /\ running = {}
    /\ preStop = {}
    /\ fut = <<>>
    /\ m_value = [a \in {TheActor} |-> 1]
    /\ reads = <<>>
    /\ handle = <<>>
    /\ n0 = 1
    /\ getLog = [t \in {TheActor} |-> NoGet]
    /\ setLog = <<>>
    /\ deleted = [a \in {TheActor} |-> <<>>]
    /\ argvar = <<>>

WorkerSelf(a) ==
    \/ sem_wait(a)
    \/ run_lock(a)
    \/ run_pop(a)
    \/ exec_void(a)
    \/ exec_value(a)
    \/ set_store(a)
    \/ set_signal(a)
    \/ delete_void(a)
    \/ delete_value(a)
    \/ self_begin(a)
    \/ Put(a)
    \/ Get(a)
    \/ spurious_wakeup(a)
    \/ self_end(a)

NextSelf ==
    \/ \E p \in Producers : \E fn \in {"_self", "_work"} : enqueue(p, fn)
    \/ \E t \in Producers \cup {Owner} : Put(t)
    \/ WorkerSelf(TheActor)
    \/ dtor_exit(Owner)
    \/ dtor_join(Owner)
    \/ dtor_destroy(Owner)

SpecSelf == InitSelf /\ [][NextSelf]_vars

-----------------------------------------------------------------------------
(* Properties of a handler that waits for its own actor (SpecSelf) *)

\* C23: once the worker has started a handler that calls get() on the
\* future of a message it has enqueued onto its own actor, the worker stays
\* inside that handler: the get() does not return, the handler is the last
\* message executed and is never deleted, and the destructor's join does not
\* return.
C23_SelfGetBlocksForever ==
    \A a \in DOMAIN execOrder :
        \A i \in 1..Len(execOrder[a]) :
            execOrder[a][i].fn = "_self" =>
                /\ i = Len(execOrder[a])
                /\ execOrder[a][i] \notin Range(deleted[a])
                /\ pc[a] \in {"put_lock", "put_push", "put_post", "get", "cond_wait"}
                /\ ~JoinReturned

-----------------------------------------------------------------------------
(* Handles: result<R> objects (actorlib.hpp 18-151) held by threads.  A   *)
(* slot holds m_data (0: no object in the slot), the thread that owns the *)
(* object, and whether the object is live (constructed, not destroyed).   *)

NumHandles == 4

Handles == 1..NumHandles

RefThreads == {"t1", "t2"}

NoHandle == [m_data |-> 0, owner |-> "none", live |-> FALSE]

NoOp == [src |-> 0, dst |-> 0, to |-> "none"]

\* the copy constructor, hpp 28: m_data(r.m_data).  Thread t copies its
\* live handle src into the free slot dst, for thread u
copy_init(t, src, dst, u) ==
    /\ pc[t] = "idle"
    /\ handle[src].live /\ handle[src].owner = t
    /\ handle[dst] = NoHandle
    /\ handle' = [handle EXCEPT ![dst] = [m_data |-> handle[src].m_data,
                                          owner |-> t, live |-> FALSE]]
    /\ loc' = [loc EXCEPT ![t] = [src |-> src, dst |-> dst, to |-> u]]
    /\ pc' = [pc EXCEPT ![t] = "copy_inc"]
    /\ UNCHANGED <<fut, pp, mailbox, hist, obs>>

\* the copy constructor, hpp 29: m_data->inc_ref(); the new handle is
\* live and is handed to thread u
copy_inc(t) ==
    /\ pc[t] = "copy_inc"
    /\ fut' = [fut EXCEPT ![handle[loc[t].dst].m_data] = inc_ref(@)]
    /\ handle' = [handle EXCEPT ![loc[t].dst].live = TRUE,
                                ![loc[t].dst].owner = loc[t].to]
    /\ loc' = [loc EXCEPT ![t] = NoOp]
    /\ pc' = [pc EXCEPT ![t] = "idle"]
    /\ UNCHANGED <<pp, mailbox, hist, obs>>

\* faulty variant of assign_inc: operator= releases the target's storage before it
\* takes the reference on the source's
assign_dec_first(t, dst, src) ==
    /\ pc[t] = "idle"
    /\ handle[src].live /\ handle[src].owner = t
    /\ handle[dst].live /\ handle[dst].owner = t
    /\ LET released == [fut EXCEPT ![handle[dst].m_data] = dec_ref(@)]
       IN  fut' = [released EXCEPT ![handle[src].m_data] = inc_ref(@)]
    /\ loc' = [loc EXCEPT ![t] = [src |-> src, dst |-> dst, to |-> t]]
    /\ pc' = [pc EXCEPT ![t] = "assign_store"]
    /\ UNCHANGED <<handle, pp, mailbox, hist, obs>>

\* operator=(const result<R> &r), hpp 43: r.m_data->inc_ref().  Thread t
\* assigns its handle src to its handle dst (dst = src: self-assignment)
assign_inc(t, dst, src) ==
    /\ pc[t] = "idle"
    /\ handle[src].live /\ handle[src].owner = t
    /\ handle[dst].live /\ handle[dst].owner = t
    /\ fut' = [fut EXCEPT ![handle[src].m_data] = inc_ref(@)]
    /\ loc' = [loc EXCEPT ![t] = [src |-> src, dst |-> dst, to |-> t]]
    /\ pc' = [pc EXCEPT ![t] = "assign_dec"]
    /\ UNCHANGED <<handle, pp, mailbox, hist, obs>>

\* operator=, hpp 44: m_data->dec_ref()
assign_dec(t) ==
    /\ pc[t] = "assign_dec"
    /\ fut' = [fut EXCEPT ![handle[loc[t].dst].m_data] = dec_ref(@)]
    /\ pc' = [pc EXCEPT ![t] = "assign_store"]
    /\ UNCHANGED <<handle, loc, pp, mailbox, hist, obs>>

\* operator=, hpp 45-46: m_data = r.m_data; return *this
assign_store(t) ==
    /\ pc[t] = "assign_store"
    /\ handle' = [handle EXCEPT ![loc[t].dst].m_data = handle[loc[t].src].m_data]
    /\ loc' = [loc EXCEPT ![t] = NoOp]
    /\ pc' = [pc EXCEPT ![t] = "idle"]
    /\ UNCHANGED <<fut, pp, mailbox, hist, obs>>

\* the destructor, hpp 34-36: m_data->dec_ref(); the slot is free again
destroy(t, h) ==
    /\ pc[t] = "idle"
    /\ handle[h].live /\ handle[h].owner = t
    /\ fut' = [fut EXCEPT ![handle[h].m_data] = dec_ref(@)]
    /\ handle' = [handle EXCEPT ![h] = NoHandle]
    /\ UNCHANGED <<pc, loc, pp, mailbox, hist, obs>>

\* two futures, each just constructed by a thread (result(const R &), hpp
\* 23: count 1), and free slots
InitRef ==
    /\ pc = [t \in RefThreads |-> "idle"]
    /\ loc = [t \in RefThreads |-> NoOp]
    /\ fut = <<NewData(DefaultValue), NewData(DefaultValue)>>
    /\ handle = [h \in Handles |->
                    IF h = 1 THEN [m_data |-> 1, owner |-> "t1", live |-> TRUE]
                    ELSE IF h = 2 THEN [m_data |-> 2, owner |-> "t2", live |-> TRUE]
                    ELSE NoHandle]
    /\ m_loop = <<>>
    /\ m_messages = <<>>
    /\ m_sem = <<>>
    /\ m_mutex = <<>>
    /\ msg = <<>>
    /\ alive = <<>>
    /\ pushOrder = <<>>
    /\ posted = <<>>
    /\ execOrder = <<>>
    /\ running = {}
    /\ preStop = {}
    /\ m_value = <<>>
    /\ reads = <<>>
    /\ n0 = 0
    /\ getLog = <<>>
    /\ setLog = <<>>
    /\ deleted = <<>>
    /\ argvar = <<>>

NextRef ==
    \E t \in RefThreads :
        \/ \E src, dst \in Handles : \E u \in RefThreads : copy_init(t, src, dst, u)
        \/ copy_inc(t)
        \/ \E dst, src \in Handles : assign_inc(t, dst, src)
        \/ assign_dec(t)
        \/ assign_store(t)
        \/ \E h \in Handles : destroy(t, h)

SpecRef == InitRef /\ [][NextRef]_vars

\* handle h is the target of an assignment that has released its old
\* storage (dec_ref, hpp 44) and has not yet stored the new pointer (hpp 45)
Released(h) == \E t \in DOMAIN pc : pc[t] = "assign_store" /\ loc[t].dst = h

\* the live handles that hold a reference to storage f
LiveHandles(f) ==
    {h \in DOMAIN handle : handle[h].live /\ handle[h].m_data = f /\ ~Released(h)}

\* a copy or an assignment that involves storage f has started and has not
\* finished (a call of inc_ref or dec_ref on f is being made or is due)
InProgress(f) ==
    \E t \in DOMAIN pc :
        /\ pc[t] \in {"copy_inc", "assign_dec", "assign_store"}
        /\ f \in {handle[loc[t].src].m_data, handle[loc[t].dst].m_data}

-----------------------------------------------------------------------------
(* Properties of the reference count (SpecRef) *)

\* C10: under any interleaving of copies, assignments and destructions by
\* different threads on different handles of the same future, the shared
\* storage is never freed while a live handle refers to it, is never used
\* after it was freed, is freed at most once, and, whenever no copy or
\* assignment involving it is in progress, its reference count equals the
\* number of live handles and it has been freed exactly if that number is 0.
C10_RefCount ==
    \A f \in DOMAIN fut :
        /\ Freed(fut[f]) => LiveHandles(f) = {}
        /\ fut[f].frees <= 1
        /\ ~fut[f].uaf
        /\ ~InProgress(f) =>
              /\ fut[f].m_ref_count = Cardinality(LiveHandles(f))
              /\ Freed(fut[f]) <=> LiveHandles(f) = {}

\* C10 witness: storage 1 was freed by an assignment of thread t1 from a
\* handle that thread t2 copied for it, while storage 2 has three live
\* handles held by both threads and no operation is in progress.
C10_Witness ==
    /\ Freed(fut[1])
    /\ handle[1].live /\ handle[1].m_data = 2
    /\ Cardinality(LiveHandles(2)) = 3
    /\ \E h, k \in LiveHandles(2) : handle[h].owner # handle[k].owner
    /\ \A t \in DOMAIN pc : pc[t] = "idle"

\* the threads inside an assignment from a handle to storage f that have
\* taken the reference on f (hpp 43) and not yet stored the pointer (hpp 45)
Assigning(f) ==
    {t \in DOMAIN pc : /\ pc[t] \in {"assign_dec", "assign_store"}
                       /\ handle[loc[t].src].m_data = f}

\* C25: an assignment adds exactly one reference on the source's storage
\* before it releases exactly one on the target's old storage: at every
\* point the count of a storage is the number of live handles to it plus
\* the assignments from it that are under way, so a storage that is being
\* assigned from (self-assignment included) is never freed, and once the
\* assignment is complete the counts are again the numbers of handles.
C25_AssignKeepsCount ==
    \A f \in DOMAIN fut :
        /\ fut[f].m_ref_count =
              Cardinality(LiveHandles(f)) + Cardinality(Assigning(f))
        /\ Assigning(f) # {} => ~Freed(fut[f]) /\ fut[f].m_ref_count >= 1

\* C25 witness: a thread assigns the only handle of a storage to itself and
\* has done the increment and the decrement: the count is 1 again and the
\* storage is not freed, while the other storage has gained a handle by a
\* completed assignment or copy.
C25_Witness ==
    \E t \in RefThreads :
        /\ pc[t] = "assign_store"
        /\ loc[t].src = loc[t].dst
        /\ LET f == handle[loc[t].src].m_data
           IN  /\ fut[f].m_ref_count = 1
               /\ ~Freed(fut[f])
               /\ \E g \in DOMAIN fut : g # f /\ fut[g].m_ref_count = 2

=============================================================================
